---- MODULE Spec2Model ----
(***************************************************************************)
(* Model of scripts/batch_replace.py: a batch regex-replacement tool.      *)
(*                                                                         *)
(* Texts, patterns, replacements, file contents and paths are sequences of *)
(* one-character strings.  The file system is a function from the         *)
(* relative paths of the existing files to their contents.                 *)
(***************************************************************************)
EXTENDS Integers, Sequences, FiniteSets, TLC

LF == "\n"
CR == "\r"

(***************************************************************************)
(* The regular expressions of Python's re module, restricted to the        *)
(* patterns built from literal characters, ".", "^", "$" and "[".  No      *)
(* character of the model's alphabet is a backslash, a quantifier, a       *)
(* parenthesis or "]", so a pattern is a sequence of one-character atoms   *)
(* and a "[" always opens a character set that is never terminated.        *)
(***************************************************************************)

\* re.compile raises re.error exactly for the patterns holding a "[".
IsValidRegex(pat) == \A k \in 1..Len(pat) : pat[k] # "["

\* "^" at offset p: the start of the text, or with MULTILINE after a newline.
AtLineStart(text, p, ml) == p = 0 \/ (ml /\ text[p] = LF)

\* "$" at offset p: the end of the text or before the newline that ends the
\* text, or with MULTILINE before any newline.
AtLineEnd(text, p, ml) ==
    \/ p = Len(text)
    \/ (p = Len(text) - 1 /\ text[Len(text)] = LF)
    \/ (ml /\ p < Len(text) /\ text[p + 1] = LF)

\* The end offset of the match of the atoms pat[k..] at offset p of text, or
\* -1 when they do not match there.
RECURSIVE MatchFrom(_, _, _, _, _)
MatchFrom(pat, k, text, p, ml) ==
    IF k > Len(pat) THEN p
    ELSE IF pat[k] = "^"
         THEN IF AtLineStart(text, p, ml)
              THEN MatchFrom(pat, k + 1, text, p, ml) ELSE -1
    ELSE IF pat[k] = "$"
         THEN IF AtLineEnd(text, p, ml)
              THEN MatchFrom(pat, k + 1, text, p, ml) ELSE -1
    ELSE IF pat[k] = "."
         THEN IF p < Len(text) /\ text[p + 1] # LF
              THEN MatchFrom(pat, k + 1, text, p + 1, ml) ELSE -1
    ELSE IF p < Len(text) /\ text[p + 1] = pat[k]
         THEN MatchFrom(pat, k + 1, text, p + 1, ml) ELSE -1

\* The offsets at or after start where a search may report a match: an empty
\* match at start itself is refused when the previous match was empty.
MatchStarts(pat, text, start, mustAdvance, ml) ==
    {s \in start..Len(text) :
        LET e == MatchFrom(pat, 1, text, s, ml)
        IN  e # -1 /\ ~(mustAdvance /\ s = start /\ e = s)}

\* The leftmost match at or after start, as <<start, end>>, or <<>>.
Search(pat, text, start, mustAdvance, ml) ==
    LET starts == MatchStarts(pat, text, start, mustAdvance, ml)
    IN  IF starts = {} THEN <<>>
        ELSE LET s == CHOOSE x \in starts : \A y \in starts : x <= y
             IN  <<s, MatchFrom(pat, 1, text, s, ml)>>

\* The spans of the successive non-overlapping matches, scanning left to
\* right as re.findall and re.sub do.
RECURSIVE Spans(_, _, _, _, _)
Spans(pat, text, start, mustAdvance, ml) ==
    LET m == Search(pat, text, start, mustAdvance, ml)
    IN  IF m = <<>> THEN <<>>
        ELSE <<m>> \o Spans(pat, text, m[2], m[2] = m[1], ml)

\* re.findall(pattern, text, flags): one item per match.
FindAll(pat, text, ml) == Spans(pat, text, 0, FALSE, ml)

\* The text from offset `from` on with each span of `spans` replaced by repl.
RECURSIVE Splice(_, _, _, _)
Splice(text, spans, repl, from) ==
    IF spans = <<>> THEN SubSeq(text, from + 1, Len(text))
    ELSE SubSeq(text, from + 1, spans[1][1]) \o repl
         \o Splice(text, Tail(spans), repl, spans[1][2])

\* re.sub(pattern, replacement, text, flags): a replacement without a
\* backslash is inserted literally.
Sub(pat, repl, text, ml) == Splice(text, Spans(pat, text, 0, FALSE, ml), repl, 0)

\* compiled.search(rel_path): a match anywhere in the string.
SearchAnywhere(pat, text, ml) == Search(pat, text, 0, FALSE, ml) # <<>>

(***************************************************************************)
(* Text files.                                                             *)
(***************************************************************************)

\* os.linesep of the platform the tool runs on.
linesep == <<LF>>

\* open(path, "r").read(): universal newlines turn "\r\n" and a lone "\r"
\* into "\n".
RECURSIVE ReadText(_)
ReadText(bytes) ==
    IF bytes = <<>> THEN <<>>
    ELSE IF bytes[1] = CR
         THEN <<LF>> \o ReadText(IF Len(bytes) >= 2 /\ bytes[2] = LF
                                 THEN SubSeq(bytes, 3, Len(bytes))
                                 ELSE Tail(bytes))
    ELSE <<bytes[1]>> \o ReadText(Tail(bytes))

\* open(path, "w").write(text): every "\n" is written as os.linesep.
RECURSIVE WriteText(_)
WriteText(text) ==
    IF text = <<>> THEN <<>>
    ELSE (IF text[1] = LF THEN linesep ELSE <<text[1]>>) \o WriteText(Tail(text))

\* Iterating a text file: the lines in order, each with its newline; a last
\* line without a newline is a line too.
RECURSIVE FileLines(_)
FileLines(text) ==
    IF text = <<>> THEN <<>>
    ELSE LET nl == {k \in 1..Len(text) : text[k] = LF}
         IN  IF nl = {} THEN <<text>>
             ELSE LET k == CHOOSE x \in nl : \A y \in nl : x <= y
                  IN  <<SubSeq(text, 1, k)>>
                      \o FileLines(SubSeq(text, k + 1, Len(text)))

\* line.rstrip("\n")
RECURSIVE RStripLF(_)
RStripLF(line) ==
    IF line # <<>> /\ line[Len(line)] = LF
    THEN RStripLF(SubSeq(line, 1, Len(line) - 1))
    ELSE line

StrippedLines(text) ==
    LET ls == FileLines(text) IN [k \in 1..Len(ls) |-> RStripLF(ls[k])]

(***************************************************************************)
(* load_rules_from_file                                                    *)
(***************************************************************************)

\* LoadLoop with a window kept only when it has all three lines.
RECURSIVE LoadLoopWholeWindows(_, _)
LoadLoopWholeWindows(lines, i) ==
    IF i >= Len(lines) THEN <<>>
    ELSE (IF i + 2 < Len(lines) /\ lines[i + 1] # <<>>
          THEN <<<<lines[i + 1], lines[i + 2]>>>>
          ELSE <<>>)
         \o LoadLoopWholeWindows(lines, i + 3)

\* The loop "for i in range(0, len(lines), 3)" from index i on (0-based).
RECURSIVE LoadLoop(_, _)
LoadLoop(lines, i) ==
    IF i >= Len(lines) THEN <<>>
    ELSE (IF i + 1 < Len(lines) /\ lines[i + 1] # <<>>
          THEN <<<<lines[i + 1], lines[i + 2]>>>>
          ELSE <<>>)
         \o LoadLoop(lines, i + 3)

\* The rules of a rules file with the given bytes.
LoadRules(bytes) == LoadLoop(StrippedLines(ReadText(bytes)), 0)

\* load_rules_from_file(rules_path) on the file system fs: the rules, or the
\* FileNotFoundError raised when the path is no file.
load_rules_from_file(fs, rules_path) ==
    IF rules_path \notin DOMAIN fs
    THEN [error |-> TRUE, rules |-> <<>>]
    ELSE [error |-> FALSE, rules |-> LoadRules(fs[rules_path])]

(***************************************************************************)
(* apply_rules_to_text                                                     *)
(***************************************************************************)

\* One iteration of the loop body for the rule <<pattern, replacement>>.
CountOf(rule, text) == Len(FindAll(rule[1], text, TRUE))

\* SubOf with only the first match replaced.
SubOfFirstOnly(rule, text) ==
    LET spans == FindAll(rule[1], text, TRUE)
    IN  Splice(text, IF spans = <<>> THEN <<>> ELSE <<spans[1]>>, rule[2], 0)

\* SubOf without the MULTILINE flag.
SubOfNoMultiline(rule, text) == Sub(rule[1], rule[2], text, FALSE)

SubOf(rule, text) == Sub(rule[1], rule[2], text, TRUE)

\* ApplyLoop with each count taken after the substitution.
RECURSIVE ApplyLoopCountAfter(_, _, _, _)
ApplyLoopCountAfter(text, rules, k, counts) ==
    IF k > Len(rules) THEN [error |-> FALSE, text |-> text, counts |-> counts]
    ELSE IF ~IsValidRegex(rules[k][1])
         THEN [error |-> TRUE, text |-> <<>>, counts |-> <<>>]
    ELSE ApplyLoopCountAfter(SubOf(rules[k], text), rules, k + 1,
             Append(counts, CountOf(rules[k], SubOf(rules[k], text))))

\* The loop over rules[k..], with the text and the counts so far.  An
\* invalid pattern raises re.error and nothing is returned.
RECURSIVE ApplyLoop(_, _, _, _)
ApplyLoop(text, rules, k, counts) ==
    IF k > Len(rules) THEN [error |-> FALSE, text |-> text, counts |-> counts]
    ELSE IF ~IsValidRegex(rules[k][1])
         THEN [error |-> TRUE, text |-> <<>>, counts |-> <<>>]
    ELSE ApplyLoop(SubOf(rules[k], text), rules, k + 1,
                   Append(counts, CountOf(rules[k], text)))

apply_rules_to_text(text, rules) == ApplyLoop(text, rules, 1, <<>>)

(***************************************************************************)
(* backup_file and process_file                                            *)
(***************************************************************************)

BackupSuffix == <<".", "b", "a", "c", "k", "u", "p">>

BackupPath(file_path) == file_path \o BackupSuffix

\* The file system with the file at path created or replaced.
PutFile(fs, path, bytes) ==
    [q \in DOMAIN fs \cup {path} |-> IF q = path THEN bytes ELSE fs[q]]

\* shutil.copy2(file_path, backup_path): a byte copy, replacing the target.
backup_file(fs, file_path) == PutFile(fs, BackupPath(file_path), fs[file_path])

\* WriteChanged with the backup made after the file was written.
WriteChangedThenBackup(fs, file_path, new_text, overwrite) ==
    LET written == PutFile(fs, file_path, WriteText(new_text))
    IN  IF overwrite THEN written ELSE backup_file(written, file_path)

\* The file system after the changed text was found, outside dry-run.
WriteChanged(fs, file_path, new_text, overwrite) ==
    PutFile(IF overwrite THEN fs ELSE backup_file(fs, file_path),
            file_path, WriteText(new_text))

\* process_file with the backup made before dry_run is looked at.
process_file_BackupBeforeDryRun(fs, rules, file_path, overwrite, dry_run) ==
    LET text == ReadText(fs[file_path])
        res  == apply_rules_to_text(text, rules)
    IN  IF res.error
        THEN [fs |-> fs, ret |-> FALSE, error |-> TRUE,
              text |-> text, new_text |-> <<>>, counts |-> <<>>]
        ELSE [fs |-> IF res.text = text THEN fs
                     ELSE IF dry_run
                          THEN (IF overwrite THEN fs ELSE backup_file(fs, file_path))
                          ELSE WriteChanged(fs, file_path, res.text, overwrite),
              ret |-> res.text # text, error |-> FALSE,
              text |-> text, new_text |-> res.text, counts |-> res.counts]

\* process_file(rules, file_path, overwrite, dry_run) on the file system fs:
\* the file system after the call, the value returned, whether an exception
\* was raised, and the locals text, new_text and counts.
process_file(fs, rules, file_path, overwrite, dry_run) ==
    LET text == ReadText(fs[file_path])
        res  == apply_rules_to_text(text, rules)
    IN  IF res.error
        THEN [fs |-> fs, ret |-> FALSE, error |-> TRUE,
              text |-> text, new_text |-> <<>>, counts |-> <<>>]
        ELSE [fs |-> IF res.text # text /\ ~dry_run
                     THEN WriteChanged(fs, file_path, res.text, overwrite)
                     ELSE fs,
              ret |-> res.text # text, error |-> FALSE,
              text |-> text, new_text |-> res.text, counts |-> res.counts]

(***************************************************************************)
(* iter_files_with_regex                                                   *)
(***************************************************************************)

\* The offsets of the "/" of a path.
Slashes(path) == {k \in 1..Len(path) : path[k] = "/"}

LastSlash(path) ==
    IF Slashes(path) = {} THEN 0
    ELSE CHOOSE x \in Slashes(path) : \A y \in Slashes(path) : y <= x

\* os.path.basename(p)
Basename(path) == SubSeq(path, LastSlash(path) + 1, Len(path))

\* The directory of a file, relative to the root: <<>> is the root itself.
Dirname(path) == SubSeq(path, 1, LastSlash(path) - 1)

\* The sequences that list every element of S once.
RECURSIVE Perms(_)
Perms(S) ==
    IF S = {} THEN {<<>>}
    ELSE UNION {{<<x>> \o q : q \in Perms(S \ {x})} : x \in S}

\* The files of the directory dir of the tree (dir = <<>>: of the root).
FilesIn(fs, dir) == {q \in DOMAIN fs : Dirname(q) = dir}

\* The files of the directories of dirs, one directory after the other, in
\* every order the files of a directory can be listed in.
RECURSIVE DirOrders(_, _)
DirOrders(fs, dirs) ==
    IF dirs = <<>> THEN {<<>>}
    ELSE {a \o b : a \in Perms(FilesIn(fs, dirs[1])),
                   b \in DirOrders(fs, Tail(dirs))}

\* The orders in which os.walk(root) can yield the files of a tree whose
\* directories hold no directories: the files of the root, then the files of
\* one directory after the other; the order within a directory and the order
\* of the directories are the operating system's.
WalkOrders(fs) ==
    LET subdirs == {Dirname(q) : q \in DOMAIN fs} \ {<<>>}
    IN  {a \o b : a \in Perms(FilesIn(fs, <<>>)),
                  b \in UNION {DirOrders(fs, ds) : ds \in Perms(subdirs)}}

\* The files of one walk whose relative path the regex finds a match in.
RECURSIVE MatchedFiles(_, _)
MatchedFiles(path_regex, walk) ==
    IF walk = <<>> THEN <<>>
    ELSE (IF SearchAnywhere(path_regex, walk[1], FALSE)
          THEN <<walk[1]>> ELSE <<>>)
         \o MatchedFiles(path_regex, Tail(walk))

\* iter_files_with_regex with an invalid regex taken as one that matches
\* nothing.
iter_files_NoCompileError(path_regex, fs) ==
    [error |-> FALSE,
     lists |-> IF ~IsValidRegex(path_regex) THEN {<<>>}
               ELSE {MatchedFiles(path_regex, w) : w \in WalkOrders(fs)}]

\* iter_files_with_regex(path_regex) on the tree fs: the lists it can return,
\* or the re.error of re.compile.
iter_files_with_regex(path_regex, fs) ==
    IF ~IsValidRegex(path_regex)
    THEN [error |-> TRUE, lists |-> {}]
    ELSE [error |-> FALSE,
          lists |-> {MatchedFiles(path_regex, w) : w \in WalkOrders(fs)}]

(***************************************************************************)
(* rules_files.sort(key=lambda p: os.path.basename(p))                     *)
(***************************************************************************)

\* ord(c) for the characters of the model.
Ord == [c \in {LF, CR, "!", "$", ".", "/", "1", "2", "[", "^",
               "a", "b", "c", "d", "e", "k", "p", "r", "t", "u", "x", "z"} |->
        CASE c = LF -> 10  [] c = CR -> 13  [] c = "!" -> 33 [] c = "$" -> 36
          [] c = "." -> 46 [] c = "/" -> 47 [] c = "1" -> 49 [] c = "2" -> 50
          [] c = "[" -> 91 [] c = "^" -> 94 [] c = "a" -> 97 [] c = "b" -> 98
          [] c = "c" -> 99 [] c = "d" -> 100 [] c = "e" -> 101
          [] c = "k" -> 107 [] c = "p" -> 112 [] c = "r" -> 114
          [] c = "t" -> 116 [] c = "u" -> 117 [] c = "x" -> 120
          [] c = "z" -> 122]

\* a < b for two Python strings.
RECURSIVE StrLess(_, _)
StrLess(a, b) ==
    IF b = <<>> THEN FALSE
    ELSE IF a = <<>> THEN TRUE
    ELSE IF a[1] = b[1] THEN StrLess(Tail(a), Tail(b))
    ELSE Ord[a[1]] < Ord[b[1]]

\* The key of the sort.
SortKey(path) == Basename(path)

\* x put into the sorted list behind every element whose key is not greater.
RECURSIVE InsertByKey(_, _)
InsertByKey(x, sorted) ==
    IF sorted = <<>> THEN <<x>>
    ELSE IF StrLess(SortKey(x), SortKey(sorted[1])) THEN <<x>> \o sorted
    ELSE <<sorted[1]>> \o InsertByKey(x, Tail(sorted))

\* list.sort(key=...): a stable sort.
RECURSIVE SortedByKey(_)
SortedByKey(list) ==
    IF list = <<>> THEN <<>>
    ELSE InsertByKey(list[Len(list)], SortedByKey(SubSeq(list, 1, Len(list) - 1)))

(***************************************************************************)
(* The state of a run of main(), and of the calls of the pure functions.   *)
(***************************************************************************)
VARIABLES
    disk,           \* the files under the current directory: path -> bytes
    rules_regex,    \* args.rules_regex
    target_regex,   \* args.target_regex
    overwrite,      \* args.overwrite
    dry_run,        \* args.dry_run
    pc,             \* where main() is
    exit_code,      \* the exit status of the process, -1 while it runs
    rules_files,    \* main's rules_files, sorted
    target_files,   \* main's target_files
    rules,          \* the rules of the rules file being executed
    ri,             \* the index of that rules file in rules_files
    ti,             \* the index of the next target file in target_files
    total_changed,  \* main's total_changed
    disk0,          \* history: the disk when the run started
    pass_disk,      \* history: the disk when the current rules file was loaded
    rules_walk,     \* history: rules_files as the selector returned it
    last,           \* history: the last call of process_file
    calls,          \* history: the calls of process_file so far
    ap_text,        \* apply_rules_to_text called alone: the text given first
    ap_rules,       \* ... the rules
    ap_out,         \* ... the results of the successive applications
    ld_bytes,       \* load_rules_from_file called alone: the bytes of the file
    ld_groups,      \* ... the groups the file was written from, if it was
    ld_rules        \* ... the result, once loaded

mainVars == <<disk, rules_regex, target_regex, overwrite, dry_run, pc,
              exit_code, rules_files, target_files, rules, ri, ti,
              total_changed, disk0, pass_disk, rules_walk, last, calls>>
applyVars == <<ap_text, ap_rules, ap_out>>
loadVars == <<ld_bytes, ld_groups, ld_rules>>
vars == <<mainVars, applyVars, loadVars>>

(***************************************************************************)
(* The bounds of the model and the inputs drawn within them.               *)
(***************************************************************************)
MaxFiles == 4       \* files in the tree a run starts from
MaxTextLen == 3     \* characters of a text given to apply_rules_to_text
MaxRules == 2       \* rules given to apply_rules_to_text
MaxApplications == 2 \* successive applications of the same rules
MaxFileLen == 5     \* bytes of an arbitrary rules file
MaxGroups == 2      \* groups of a rules file written group by group

EmptyTree == [q \in {} |-> <<>>]

\* The files a tree may hold, each with the contents it may have.
PathR2 == <<"r", "2">>
PathDR1 == <<"d", "/", "r", "1">>
PathER1 == <<"e", "/", "r", "1">>
PathT == <<"t">>
PathTBackup == BackupPath(PathT)
PathU == <<"u">>

PathPool == {PathR2, PathDR1, PathER1, PathT, PathTBackup, PathU}

PathContents(path) ==
    CASE path = PathR2 -> {<<"b", LF, "c", LF>>}
      [] path = PathDR1 -> {<<"a", LF, "b", LF, LF>>}
      [] path = PathER1 -> {<<"b", LF, "a">>, <<"[", LF, "x", LF>>}
      [] path = PathT -> {<<"a", "a", "b">>, <<"a", CR, LF>>}
      [] path = PathTBackup -> {<<"b">>}
      [] path = PathU -> {<<"a", "b">>}

RECURSIVE TreesOver(_)
TreesOver(S) ==
    IF S = {} THEN {EmptyTree}
    ELSE LET p == CHOOSE x \in S : TRUE
             rest == TreesOver(S \ {p})
         IN  rest \cup {PutFile(t, p, c) : t \in rest, c \in PathContents(p)}

Trees == {t \in TreesOver(PathPool) : Cardinality(DOMAIN t) <= MaxFiles}

RulesRegexes == {<<"r">>, <<"1">>, <<"[">>, <<"z">>}
TargetRegexes == {<<"t">>, <<"^">>, <<"^", ".", "$">>, <<"t", "$">>, <<"[">>, <<"z">>}

NoCall == [set |-> FALSE, path |-> <<>>, pre |-> EmptyTree, post |-> EmptyTree,
           pass_pre |-> EmptyTree, rules |-> <<>>, text |-> <<>>, new_text |-> <<>>, counts |-> <<>>,
           ret |-> FALSE, error |-> FALSE]

MainInit ==
    /\ disk \in Trees
    /\ rules_regex \in RulesRegexes
    /\ target_regex \in TargetRegexes
    /\ overwrite \in BOOLEAN
    /\ dry_run \in BOOLEAN
    /\ pc = "select_rules"
    /\ exit_code = -1
    /\ rules_files = <<>>
    /\ target_files = <<>>
    /\ rules = <<>>
    /\ ri = 0
    /\ ti = 0
    /\ total_changed = 0
    /\ disk0 = disk
    /\ pass_disk = disk
    /\ rules_walk = <<>>
    /\ last = NoCall
    /\ calls = <<>>

\* No run of main(): the state of a call of a pure function alone.
MainIdle ==
    /\ disk = EmptyTree
    /\ rules_regex = <<>>
    /\ target_regex = <<>>
    /\ overwrite = FALSE
    /\ dry_run = FALSE
    /\ pc = "idle"
    /\ exit_code = -1
    /\ rules_files = <<>>
    /\ target_files = <<>>
    /\ rules = <<>>
    /\ ri = 0
    /\ ti = 0
    /\ total_changed = 0
    /\ disk0 = EmptyTree
    /\ pass_disk = EmptyTree
    /\ rules_walk = <<>>
    /\ last = NoCall
    /\ calls = <<>>

ApplyIdle == ap_text = <<>> /\ ap_rules = <<>> /\ ap_out = <<>>

LoadIdle == ld_bytes = <<>> /\ ld_groups = <<"none">> /\ ld_rules = <<"pending">>

(***************************************************************************)
(* main()                                                                  *)
(***************************************************************************)

\* raise SystemExit(code)
Exit(code) ==
    /\ pc' = "exit"
    /\ exit_code' = code

\* An exception nothing catches: the interpreter prints the traceback and
\* exits with status 1.
Crash ==
    /\ pc' = "crashed"
    /\ exit_code' = 1

\* "Locate rules files": select, check and sort.
SelectRules ==
    /\ pc = "select_rules"
    /\ LET sel == iter_files_with_regex(rules_regex, disk)
       IN  IF sel.error
           THEN Exit(1) /\ UNCHANGED <<rules_files, rules_walk>>
           ELSE \E found \in sel.lists :
                   IF found = <<>>
                   THEN Exit(2) /\ UNCHANGED <<rules_files, rules_walk>>
                   ELSE /\ rules_files' = SortedByKey(found)
                        /\ rules_walk' = found
                        /\ pc' = "select_targets"
                        /\ UNCHANGED exit_code
    /\ UNCHANGED <<disk, rules_regex, target_regex, overwrite, dry_run,
                   target_files, rules, ri, ti, total_changed, disk0,
                   pass_disk, last, calls>>
    /\ UNCHANGED <<applyVars, loadVars>>

\* "Locate target files": select and check; then the loop starts.
SelectTargets ==
    /\ pc = "select_targets"
    /\ LET sel == iter_files_with_regex(target_regex, disk)
       IN  IF sel.error
           THEN Exit(1) /\ UNCHANGED <<target_files, ri>>
           ELSE \E found \in sel.lists :
                   IF found = <<>>
                   THEN Exit(2) /\ UNCHANGED <<target_files, ri>>
                   ELSE /\ target_files' = found
                        /\ ri' = 1
                        /\ pc' = "load"
                        /\ UNCHANGED exit_code
    /\ UNCHANGED <<disk, rules_regex, target_regex, overwrite, dry_run,
                   rules_files, rules, ti, total_changed, disk0,
                   pass_disk, rules_walk, last, calls>>
    /\ UNCHANGED <<applyVars, loadVars>>

\* The head of one iteration of "for rules_path in rules_files".
LoadRulesFile ==
    /\ pc = "load"
    /\ ri <= Len(rules_files)
    /\ LET loaded == load_rules_from_file(disk, rules_files[ri])
       IN  IF loaded.error
           THEN Crash /\ UNCHANGED <<rules, ti, pass_disk>>
           ELSE /\ rules' = loaded.rules
                /\ ti' = 1
                /\ pass_disk' = disk
                /\ pc' = "process"
                /\ UNCHANGED exit_code
    /\ UNCHANGED <<disk, rules_regex, target_regex, overwrite, dry_run,
                   rules_files, target_files, ri, total_changed, disk0,
                   rules_walk, last, calls>>
    /\ UNCHANGED <<applyVars, loadVars>>

\* One iteration of "for target_file in target_files".
ProcessTarget ==
    /\ pc = "process"
    /\ LET target_file == target_files[ti]
           res == process_file(disk, rules, target_file, overwrite, dry_run)
       IN  /\ last' = [set |-> TRUE, path |-> target_file, pre |-> disk,
                       post |-> res.fs, pass_pre |-> pass_disk,
                       rules |-> rules, text |-> res.text,
                       new_text |-> res.new_text, counts |-> res.counts,
                       ret |-> res.ret, error |-> res.error]
           /\ calls' = Append(calls, [rf |-> ri, tf |-> ti, path |-> target_file,
                                       ret |-> res.ret])
           /\ disk' = res.fs
           /\ IF res.error
              THEN Crash /\ UNCHANGED <<ri, ti, total_changed>>
              ELSE /\ total_changed' = total_changed + (IF res.ret THEN 1 ELSE 0)
                   /\ IF ti < Len(target_files)
                      THEN ti' = ti + 1 /\ UNCHANGED <<ri, pc>>
                      ELSE ri' = ri + 1 /\ pc' = "load" /\ UNCHANGED ti
                   /\ UNCHANGED exit_code
    /\ UNCHANGED <<rules_regex, target_regex, overwrite, dry_run, rules_files,
                   target_files, rules, disk0, pass_disk, rules_walk>>
    /\ UNCHANGED <<applyVars, loadVars>>

\* The loop is over: the summary is printed and main() returns.
Finish ==
    /\ pc = "load"
    /\ ri > Len(rules_files)
    /\ pc' = "done"
    /\ exit_code' = 0
    /\ UNCHANGED <<disk, rules_regex, target_regex, overwrite, dry_run,
                   rules_files, target_files, rules, ri, ti, total_changed,
                   disk0, pass_disk, rules_walk, last, calls>>
    /\ UNCHANGED <<applyVars, loadVars>>

Init == MainInit /\ ApplyIdle /\ LoadIdle

Next ==
    \/ SelectRules
    \/ SelectTargets
    \/ LoadRulesFile
    \/ ProcessTarget
    \/ Finish

Spec == Init /\ [][Next]_vars

(***************************************************************************)
(* apply_rules_to_text called on its own: a text and a list of rules are   *)
(* drawn, and the rules are applied to the text and then to their own      *)
(* output.                                                                 *)
(***************************************************************************)
SeqsUpTo(S, n) == UNION {[1..k -> S] : k \in 0..n}

ApplyAlphabet == {"a", "b", "x", LF}

RuleAB == <<<<"a">>, <<"b">>>>
RuleBC == <<<<"b">>, <<"c">>>>
RuleDotX == <<<<".">>, <<"x">>>>
RuleAEnd == <<<<"a", "$">>, <<"a", "!">>>>
RuleStart == <<<<"^">>, <<"x">>>>
RuleBad == <<<<"[">>, <<"x">>>>

RulePool == {RuleAB, RuleBC, RuleDotX, RuleAEnd, RuleStart, RuleBad}

ApplyInit ==
    /\ ap_text \in SeqsUpTo(ApplyAlphabet, MaxTextLen)
    /\ ap_rules \in SeqsUpTo(RulePool, MaxRules)
    /\ ap_out = <<>>

\* The text the next application is given.
ApplyInput(k) == IF k = 1 THEN ap_text ELSE ap_out[k - 1].text

ApplyOnce ==
    /\ pc = "idle"
    /\ Len(ap_out) < MaxApplications
    /\ ap_out # <<>> => ~ap_out[Len(ap_out)].error
    /\ ap_out' = Append(ap_out,
                        apply_rules_to_text(ApplyInput(Len(ap_out) + 1), ap_rules))
    /\ UNCHANGED <<ap_text, ap_rules>>
    /\ UNCHANGED <<mainVars, loadVars>>

InitApply == MainIdle /\ ApplyInit /\ LoadIdle

SpecApply == InitApply /\ [][ApplyOnce]_vars

(***************************************************************************)
(* load_rules_from_file called on its own: on every short file, and on the *)
(* files written group by group.                                           *)
(***************************************************************************)
LoadAlphabet == {"a", "b", LF, CR}

GroupPool == {<<pat, rep>> : pat \in {<<>>, <<"a">>, <<"b">>},
                             rep \in {<<>>, <<"a">>}}

Newlines == {<<LF>>, <<CR, LF>>}

\* The file of the groups gs, every line ended by nl: a pattern line, a
\* replacement line and a blank separator line per group; the separator line
\* of the last group is left out unless lastSep.
RECURSIVE FormatGroups(_, _, _)
FormatGroups(gs, nl, lastSep) ==
    IF gs = <<>> THEN <<>>
    ELSE gs[1][1] \o nl \o gs[1][2] \o nl
         \o (IF Len(gs) > 1 \/ lastSep THEN nl ELSE <<>>)
         \o FormatGroups(Tail(gs), nl, lastSep)

\* The same file without the newline that ends it, when its last line is
\* not empty.
WithoutFinalNewline(bytes, nl) ==
    LET n == Len(bytes) - Len(nl)
    IN  IF n >= 1 /\ bytes[n] \notin {LF, CR} THEN SubSeq(bytes, 1, n) ELSE bytes

LoadInit ==
    /\ \/ /\ ld_bytes \in SeqsUpTo(LoadAlphabet, MaxFileLen)
          /\ ld_groups = <<"none">>
       \/ \E gs \in SeqsUpTo(GroupPool, MaxGroups), nl \in Newlines,
             lastSep \in BOOLEAN, finalNl \in BOOLEAN :
             /\ ld_groups = <<"groups", gs>>
             /\ ld_bytes = IF finalNl THEN FormatGroups(gs, nl, lastSep)
                           ELSE WithoutFinalNewline(
                                    FormatGroups(gs, nl, lastSep), nl)
    /\ ld_rules = <<"pending">>

\* The path of the file that is loaded.
LoadPath == <<"r">>

Load ==
    /\ pc = "idle"
    /\ ld_rules = <<"pending">>
    /\ ld_rules' = <<"loaded",
                     load_rules_from_file(PutFile(EmptyTree, LoadPath, ld_bytes),
                                          LoadPath).rules>>
    /\ UNCHANGED <<ld_bytes, ld_groups>>
    /\ UNCHANGED <<mainVars, applyVars>>

InitLoad == MainIdle /\ ApplyIdle /\ LoadInit

SpecLoad == InitLoad /\ [][Load]_vars

(***************************************************************************)
(* What the claims about apply_rules_to_text are stated with: the matches  *)
(* of a pattern described position by position, not by a scan.             *)
(***************************************************************************)

\* The characters a match of the pattern consumes.
Width(pat) == Cardinality({k \in 1..Len(pat) : pat[k] \notin {"^", "$"}})

\* The offsets of text the pattern matches at.
MatchOffsets(pat, text) ==
    {s \in 0..Len(text) : MatchFrom(pat, 1, text, s, TRUE) # -1}

\* The offsets of the non-overlapping matches, leftmost first: a match counts
\* exactly when no counted match to its left reaches into it.
NonOverlapping(pat, text) ==
    LET all == MatchOffsets(pat, text)
        w == Width(pat)
        counted[s \in 0..Len(text)] ==
            /\ s \in all
            /\ \A q \in 0..(s - 1) : q + w > s => ~counted[q]
    IN  {s \in 0..Len(text) : counted[s]}

RefCount(rule, text) == Cardinality(NonOverlapping(rule[1], text))

RECURSIVE Flatten(_)
Flatten(pieces) ==
    IF pieces = <<>> THEN <<>> ELSE pieces[1] \o Flatten(Tail(pieces))

\* The text with every non-overlapping match replaced.
RefReplaced(rule, text) ==
    LET S == NonOverlapping(rule[1], text)
        w == Width(rule[1])
        Covered(p) == \E q \in S : q <= p /\ p < q + w
    IN  Flatten([n \in 1..(Len(text) + 1) |->
                    (IF (n - 1) \in S THEN rule[2] ELSE <<>>)
                    \o (IF n <= Len(text) /\ ~Covered(n - 1)
                        THEN <<text[n]>> ELSE <<>>)])

\* The text as rewritten by the rules 1..i, one after the other.
RECURSIVE RefTextAfter(_, _, _)
RefTextAfter(text, rs, i) ==
    IF i = 0 THEN text
    ELSE RefReplaced(rs[i], RefTextAfter(text, rs, i - 1))

AllValid(rs) == \A i \in 1..Len(rs) : IsValidRegex(rs[i][1])

TextAAB == <<"a", "a", "b">>

\* C4: apply_rules_to_text processes the rules in order: the i-th count is
\* the number of non-overlapping matches of the i-th pattern in the text as
\* rewritten by the rules before it, the next rule is given that text with
\* every such match replaced, there is one count per rule, and without rules
\* the text comes back unchanged with no counts.
C4_SequentialCounts ==
    \A k \in 1..Len(ap_out) :
        LET out == ap_out[k]
            inp == ApplyInput(k)
        IN  /\ out.error <=> ~AllValid(ap_rules)
            /\ ~out.error =>
                  /\ Len(out.counts) = Len(ap_rules)
                  /\ \A i \in 1..Len(ap_rules) :
                        out.counts[i] =
                            RefCount(ap_rules[i], RefTextAfter(inp, ap_rules, i - 1))
                  /\ out.text = RefTextAfter(inp, ap_rules, Len(ap_rules))
                  /\ ap_rules = <<>> => out.text = inp /\ out.counts = <<>>

\* The second rule counts three matches in the rewritten text, where the
\* original text holds one.
C4_Witness ==
    /\ ap_text = TextAAB
    /\ ap_rules = <<RuleAB, RuleBC>>
    /\ Len(ap_out) >= 1
    /\ ap_out[1].counts = <<2, 3>>

\* C5 as stated: the rules ("a","b"), ("b","c") applied to "aab" give "ccb".
C5_AsStated ==
    (ap_text = TextAAB /\ ap_rules = <<RuleAB, RuleBC>> /\ Len(ap_out) >= 1)
        => ap_out[1].text = <<"c", "c", "b">>

\* C5, amended: the rules ("a","b"), ("b","c") applied in order to "aab"
\* give "ccc", the second rule rewriting the "b"s the first one made too,
\* and not "bcb".
C5_SequentialResult ==
    (ap_text = TextAAB /\ ap_rules = <<RuleAB, RuleBC>> /\ Len(ap_out) >= 1)
        => /\ ap_out[1].text = <<"c", "c", "c">>
           /\ ap_out[1].text # <<"b", "c", "b">>

C5_Witness ==
    /\ ap_text = TextAAB
    /\ ap_rules = <<RuleAB, RuleBC>>
    /\ Len(ap_out) >= 1
    /\ ~ap_out[1].error

\* C6 as stated: a second application of (".","x") to its own output still
\* changes the text (wherever the rule still matches), and a second
\* application of ("a$","a!") does not.
C6_AsStated ==
    Len(ap_out) = 2 =>
        /\ ap_rules = <<RuleDotX>> /\ ap_out[2].counts # <<0>>
              => ap_out[2].text # ap_out[1].text
        /\ ap_rules = <<RuleAEnd>> => ap_out[2].text = ap_out[1].text

\* C6, amended: a second application leaves the text unchanged for both
\* rules.  They differ in the matches: (".","x") matches again every
\* character it matched before, rewriting "x" to "x", while ("a$","a!")
\* matches nothing in its own output; its first application changes the
\* text exactly when it matches.
C6_SecondApplication ==
    /\ (Len(ap_out) >= 1 /\ ap_rules = <<RuleAEnd>>)
          => (ap_out[1].text # ap_text <=> ap_out[1].counts # <<0>>)
    /\ Len(ap_out) = 2 =>
          /\ ap_rules = <<RuleDotX>>
                => /\ ap_out[2].text = ap_out[1].text
                   /\ ap_out[2].counts = ap_out[1].counts
          /\ ap_rules = <<RuleAEnd>>
                => /\ ap_out[2].text = ap_out[1].text
                   /\ ap_out[2].counts = <<0>>

\* Both rules have matched in a first application, and (".","x") matches in
\* the second one as well.
C6_Witness ==
    /\ Len(ap_out) = 2
    /\ ap_out[1].counts # <<0>>
    /\ \/ ap_rules = <<RuleDotX>> /\ ap_out[2].counts # <<0>>
       \/ ap_rules = <<RuleAEnd>> /\ LF \in {ap_text[k] : k \in 1..Len(ap_text)}

(***************************************************************************)
(* What the claim about load_rules_from_file is stated with.               *)
(***************************************************************************)

\* The offsets of the newlines of a text, in order.
RECURSIVE Ascending(_)
Ascending(S) ==
    IF S = {} THEN <<>>
    ELSE LET m == CHOOSE x \in S : \A y \in S : x <= y
         IN  <<m>> \o Ascending(S \ {m})

\* The lines of a text: what stands between two newlines, before the first
\* and, if it is not empty, after the last.
RefLines(text) ==
    LET nl == Ascending({k \in 1..Len(text) : text[k] = LF})
        from(n) == IF n = 1 THEN 1 ELSE nl[n - 1] + 1
        whole == [n \in 1..Len(nl) |-> SubSeq(text, from(n), nl[n] - 1)]
        rest == SubSeq(text, from(Len(nl) + 1), Len(text))
    IN  IF rest = <<>> THEN whole ELSE Append(whole, rest)

\* The rules of the windows of three lines, in order.
RefWindows(lines) ==
    LET ks == Ascending({k \in 0..Len(lines) :
                            3 * k + 2 <= Len(lines) /\ lines[3 * k + 1] # <<>>})
    IN  [n \in 1..Len(ks) |-> <<lines[3 * ks[n] + 1], lines[3 * ks[n] + 2]>>]

NonEmptyPattern(g) == g[1] # <<>>

\* C7: load cuts the lines of the file into windows of three; a window with
\* at least two lines and a non-empty first line gives the rule (first line,
\* second line), any other window nothing, in file order; so a file of N
\* well-formed groups gives its groups without those of an empty pattern,
\* also without the last separator line.
C7_LoadWindows ==
    ld_rules[1] = "loaded" =>
        /\ ld_rules[2] = RefWindows(RefLines(ReadText(ld_bytes)))
        /\ ld_groups[1] = "groups"
              => ld_rules[2] = SelectSeq(ld_groups[2], NonEmptyPattern)

\* Two groups, the first with an empty pattern, the last without separator
\* line and without final newline.
C7_Witness ==
    /\ ld_groups = <<"groups", <<<<<<>>, <<"a">>>>, <<<<"b">>, <<"a">>>>>>>>
    /\ ld_bytes = <<LF, "a", LF, LF, "b", LF, "a">>
    /\ ld_rules = <<"loaded", <<<<<<"b">>, <<"a">>>>>>>>

(***************************************************************************)
(* The claims about process_file and main().                               *)
(***************************************************************************)

\* C1: with dry-run set nothing is written and nothing backed up: the files
\* on disk are those the run started with, byte for byte, and the disk after
\* a call of process_file is the disk before it, whether or not the call
\* returns true.
C1_DryRunWritesNothing ==
    dry_run => /\ disk = disk0
               /\ last.set => last.post = last.pre

\* A dry run in which process_file has reported a change.
C1_Witness ==
    /\ dry_run
    /\ ~overwrite
    /\ last.set
    /\ last.ret
    /\ total_changed >= 1

\* C2: a call with overwrite and dry_run false whose new text differs from
\* the text read leaves <file>.backup with the bytes the file had before the
\* call, leaves the file with the new text of apply_rules_to_text, and
\* returns true.
C2_BackupThenWrite ==
    (last.set /\ ~last.error /\ ~overwrite /\ ~dry_run
        /\ apply_rules_to_text(last.text, last.rules).text # last.text)
    => /\ BackupPath(last.path) \in DOMAIN last.post
       /\ last.post[BackupPath(last.path)] = last.pre[last.path]
       /\ last.post[last.path] = apply_rules_to_text(last.text, last.rules).text
       /\ last.ret
       /\ disk = last.post

\* A changed call that has replaced a backup that was there before.
C2_Witness ==
    /\ last.set
    /\ ~overwrite
    /\ ~dry_run
    /\ last.ret
    /\ BackupPath(last.path) \in DOMAIN last.pre
    /\ last.pre[BackupPath(last.path)] # last.pre[last.path]

Range(seq) == {seq[k] : k \in 1..Len(seq)}

\* The target files some call of process_file has reported as changed.
ChangedTargets == {c.path : c \in {d \in Range(calls) : d.ret}}

\* No selected target file is the backup of a selected target file.
NoBackupSelected ==
    \A t \in Range(target_files) : BackupPath(t) \notin Range(target_files)

\* C3 as stated, for the runs that select no backup of a selected target:
\* after a complete run with neither overwrite nor dry-run, every target the
\* run changed has a backup holding the bytes the file had before the run,
\* and the backup of a target the run did not change is as it was.
C3_AsStated ==
    (pc = "done" /\ ~overwrite /\ ~dry_run /\ NoBackupSelected) =>
        \A t \in Range(target_files) :
            IF t \in ChangedTargets
            THEN /\ BackupPath(t) \in DOMAIN disk
                 /\ disk[BackupPath(t)] = disk0[t]
            ELSE /\ BackupPath(t) \in DOMAIN disk => BackupPath(t) \in DOMAIN disk0
                 /\ BackupPath(t) \in DOMAIN disk0
                       => disk[BackupPath(t)] = disk0[BackupPath(t)]

\* The files of a tree the path regex finds a match in.
Matching(path_regex, fs) ==
    {q \in DOMAIN fs : SearchAnywhere(path_regex, q, FALSE)}

RulesInvalid == ~IsValidRegex(rules_regex)
TargetInvalid == ~IsValidRegex(target_regex)
RulesNoMatch == ~RulesInvalid /\ Matching(rules_regex, disk0) = {}
TargetNoMatch == ~TargetInvalid /\ Matching(target_regex, disk0) = {}

StartupOver == pc \notin {"select_rules", "select_targets"}

ExitedWith(code) == pc = "exit" /\ exit_code = code

\* No file was loaded as rules, processed, backed up or written.
NothingTouched ==
    disk = disk0 /\ calls = <<>> /\ ~last.set /\ rules = <<>> /\ ri = 0

\* C8 as stated: the run exits with 1 whenever either regex is invalid and,
\* both being valid, with 2 whenever either selection is empty, before any
\* file is touched.
C8_AsStated ==
    StartupOver =>
        /\ (RulesInvalid \/ TargetInvalid) => ExitedWith(1)
        /\ (~RulesInvalid /\ ~TargetInvalid /\ (RulesNoMatch \/ TargetNoMatch))
              => ExitedWith(2)
        /\ pc = "exit" => NothingTouched

\* C8, amended: the rules regex is checked first, its validity and then its
\* selection, and the target regex only after it.  The run exits with 1 when
\* the rules regex is invalid, or when the rules selection is not empty and
\* the target regex is invalid; with 2 when the rules regex is valid and
\* selects nothing, whatever the target regex is, or when the rules
\* selection is not empty and the target regex is valid and selects
\* nothing; and in each case before any file is touched.  Otherwise the run
\* does not stop at start-up.
C8_StartupValidation ==
    /\ (RulesInvalid \/ RulesNoMatch) => pc \in {"select_rules", "exit"}
    /\ StartupOver =>
          /\ IF RulesInvalid THEN ExitedWith(1)
             ELSE IF RulesNoMatch THEN ExitedWith(2)
             ELSE IF TargetInvalid THEN ExitedWith(1)
             ELSE IF TargetNoMatch THEN ExitedWith(2)
             ELSE pc # "exit"
          /\ pc = "exit" => NothingTouched

\* A run stopped with 2 by a rules regex that selects nothing although its
\* target regex is invalid, or stopped with 1 by an invalid target regex.
C8_Witness ==
    /\ pc = "exit"
    /\ \/ RulesNoMatch /\ TargetInvalid /\ exit_code = 2
       \/ ~RulesInvalid /\ ~RulesNoMatch /\ TargetInvalid /\ exit_code = 1

\* a <= b for the keys of the sort.
KeyLessEq(a, b) == ~StrLess(b, a)

\* The offset of a path in a list that holds it once.
IndexOf(list, path) == CHOOSE k \in 1..Len(list) : list[k] = path

\* rules_files holds the selected rules files in ascending order of file
\* name, files of the same name in the order the selector gave them.
SortedStable ==
    /\ Len(rules_files) = Len(rules_walk)
    /\ Range(rules_files) = Range(rules_walk)
    /\ \A i, j \in 1..Len(rules_files) :
          i < j =>
              /\ KeyLessEq(Basename(rules_files[i]), Basename(rules_files[j]))
              /\ Basename(rules_files[i]) = Basename(rules_files[j])
                    => IndexOf(rules_walk, rules_files[i])
                           < IndexOf(rules_walk, rules_files[j])

\* The n-th call of process_file is for rules file (n-1) \div T + 1 and
\* target file (n-1) % T + 1, T the number of target files: every target is
\* processed with one rules file before any is with the next.
PassOrder ==
    \A n \in 1..Len(calls) :
        /\ calls[n].rf = ((n - 1) \div Len(target_files)) + 1
        /\ calls[n].tf = ((n - 1) % Len(target_files)) + 1
        /\ calls[n].path = target_files[calls[n].tf]

\* C9 as stated: the rules files are applied in ascending order of file
\* name, ties in selector order; every target is processed with rules file
\* k before any with rules file k+1; and the text a rules file is applied to
\* is the target's content as the rules files before it left it, that is,
\* as it was when this rules file was loaded.
C9_AsStated ==
    /\ SortedStable
    /\ PassOrder
    /\ last.set => last.text = ReadText(last.pass_pre[last.path])

\* The loop "for target_file in target_files" over targets[k..], from the
\* file system fs: the file system it leaves, the calls that returned true,
\* and whether an exception ended it.
RECURSIVE RunTargets(_, _, _, _, _, _)
RunTargets(fs, rs, targets, k, ow, dr) ==
    IF k > Len(targets) THEN [fs |-> fs, changed |-> 0, error |-> FALSE]
    ELSE LET res == process_file(fs, rs, targets[k], ow, dr)
         IN  IF res.error THEN [fs |-> res.fs, changed |-> 0, error |-> TRUE]
             ELSE LET rest == RunTargets(res.fs, rs, targets, k + 1, ow, dr)
                  IN  [fs |-> rest.fs, error |-> rest.error,
                       changed |-> rest.changed + (IF res.ret THEN 1 ELSE 0)]

\* The loop "for rules_path in rules_files" over rfs[k..], the targets of
\* the n-th rules file processed in the order orders[n].
RECURSIVE RunRulesFiles(_, _, _, _, _, _)
RunRulesFiles(fs, rfs, k, orders, ow, dr) ==
    IF k > Len(rfs) THEN [fs |-> fs, changed |-> 0, error |-> FALSE]
    ELSE LET loaded == load_rules_from_file(fs, rfs[k])
             pass == RunTargets(fs, loaded.rules, orders[k], 1, ow, dr)
         IN  IF loaded.error THEN [fs |-> fs, changed |-> 0, error |-> TRUE]
             ELSE IF pass.error THEN pass
             ELSE LET rest == RunRulesFiles(pass.fs, rfs, k + 1, orders, ow, dr)
                  IN  [fs |-> rest.fs, error |-> rest.error,
                       changed |-> rest.changed + pass.changed]

\* C10 as stated: for the rules files and the target files of the run, the
\* files on disk and the total of modifications after the run are the same
\* whatever order the target files are processed in within each rules file.
C10_AsStated ==
    pc = "done" =>
        \A orders \in [1..Len(rules_files) -> Perms(Range(target_files))] :
            LET other == RunRulesFiles(disk0, rules_files, 1, orders,
                                       overwrite, dry_run)
            IN  ~other.error => /\ other.fs = disk
                                /\ other.changed = total_changed

====
